---- MODULE Spec2Model ----
(***************************************************************************)
(* A model of the red-black tree of lib/rbtree.js.                         *)
(*                                                                         *)
(* Nodes are objects of the JavaScript heap; the model keeps them in an    *)
(* arena: a node is a number of Nodes, null is Null, and the fields        *)
(* _parent, _left, _right, _color, _key and _value are functions over      *)
(* Nodes.  A tree  t  is the record of the root and of these functions,    *)
(* and every method is an operator from trees to trees that performs the   *)
(* method's assignments in the order of its statements.                    *)
(***************************************************************************)
EXTENDS Integers, Sequences, FiniteSets, TLC

\* ---------------------------------------------------------------- bounds
MaxKey == 9
MaxQueryKey == 4
MaxSwapKey == 4
MaxVal == 2
MaxValidateKey == 5

\* ------------------------------------------------------------- constants
RBTREE_COLOR_RED == 0
RBTREE_COLOR_BLACK == 1
Null == 0

Keys == 1 .. MaxKey
Values == 1 .. MaxVal
Nodes == 1 .. MaxKey
\* the keys a query is asked for: the storable ones, one below and one above
QueryKeys == 0 .. (MaxQueryKey + 1)

VARIABLES root, parent, left, right, color, key, value, nodes, fault, trace,
          rot, climb, deficit, last, store, order, pre

vars == <<root, parent, left, right, color, key, value, nodes, fault, trace,
          rot, climb, deficit, last, store, order, pre>>

\* The heap as one value.  nodes is the set of the objects that insert has
\* created and remove has not been given yet; fault says that a statement
\* read a field of null (a TypeError in JavaScript).  trace and rot observe
\* the mutation that ran last: the cases its fixup loop went through, in
\* order, and the number of rotations it made; climb holds, for each
\* iteration of that fixup loop, how many links below the root the loop's
\* current position was when the iteration began; deficit holds, for each
\* iteration of the removal fixup, the side the loop took the current node
\* to be on, the current node, what the parent's link on that side held,
\* and the parent's link on the other side.
Tree ==
  [root |-> root, parent |-> parent, left |-> left, right |-> right,
   color |-> color, key |-> key, value |-> value, nodes |-> nodes,
   fault |-> fault, trace |-> trace, rot |-> rot, climb |-> climb,
   deficit |-> deficit]

\* the start of a mutation
Begin(t) ==
  [t EXCEPT !.trace = <<>>, !.rot = 0, !.climb = <<>>, !.deficit = <<>>]

\* the number of links from the root down to the node n
RECURSIVE depthOf(_, _)
depthOf(t, n) == IF t.parent[n] = Null THEN 0 ELSE 1 + depthOf(t, t.parent[n])

\* an iteration of a fixup loop begins d links below the root
Enter(t, d) == [t EXCEPT !.climb = Append(@, d)]

\* the fixup loop is in the case c of the source's comments
Mark(t, c) == [t EXCEPT !.trace = Append(@, c)]

compare(a, b) == a - b

\* ------------------------------------------------------------ RBTreeNode
\* new RBTreeNode(parent, key, value) stored in the object n.
RBTreeNode(t, n, p, k, v) ==
  [t EXCEPT !.parent[n] = p, !.left[n] = Null, !.right[n] = Null,
            !.color[n] = RBTREE_COLOR_RED, !.key[n] = k, !.value[n] = v,
            !.nodes = @ \cup {n}]

\* The object a `new` yields is fresh: any object that is not in use.  The
\* model names it after its key when that name is free.
Fresh(t, k) ==
  IF k \notin t.nodes THEN k ELSE CHOOSE n \in Nodes \ t.nodes : TRUE

\* An object that left the tree is garbage: the model clears its fields.
Dispose(t, n) ==
  [t EXCEPT !.parent[n] = Null, !.left[n] = Null, !.right[n] = Null,
            !.color[n] = RBTREE_COLOR_RED, !.key[n] = 0, !.value[n] = 0,
            !.nodes = @ \ {n}]

Fault(t) == [t EXCEPT !.fault = TRUE]

RECURSIVE leftmost(_, _)
leftmost(t, node) ==
  IF t.left[node] # Null THEN leftmost(t, t.left[node]) ELSE node

RECURSIVE rightmost(_, _)
rightmost(t, node) ==
  IF t.right[node] # Null THEN rightmost(t, t.right[node]) ELSE node

RECURSIVE climbRight(_, _, _)
climbRight(t, node, p) ==
  IF p # Null /\ t.right[p] = node THEN climbRight(t, p, t.parent[p]) ELSE p

RECURSIVE climbLeft(_, _, _)
climbLeft(t, node, p) ==
  IF p # Null /\ t.left[p] = node THEN climbLeft(t, p, t.parent[p]) ELSE p

\* the successor taken to be the right child itself
succNoDescent(t, this) ==
  IF t.right[this] # Null THEN t.right[this]
  ELSE climbRight(t, this, t.parent[this])

succ(t, this) ==
  IF t.right[this] # Null THEN leftmost(t, t.right[this])
  ELSE climbRight(t, this, t.parent[this])

pred(t, this) ==
  IF t.left[this] # Null THEN rightmost(t, t.left[this])
  ELSE climbLeft(t, this, t.parent[this])

\* ---------------------------------------------------------------- RBTree
empty(t) == t.root = Null

min(t) == IF t.root # Null THEN leftmost(t, t.root) ELSE t.root

\* max that stops at the right child of the root
maxOneStep(t) ==
  IF t.root # Null /\ t.right[t.root] # Null THEN t.right[t.root] ELSE t.root

max(t) == IF t.root # Null THEN rightmost(t, t.root) ELSE t.root

\* the descent of find that turns the wrong way
RECURSIVE findFromWrongWay(_, _, _)
findFromWrongWay(t, node, k) ==
  IF node = Null THEN node
  ELSE LET result == compare(k, t.key[node]) IN
       IF result = 0 THEN node
       ELSE IF result > 0 THEN findFromWrongWay(t, t.left[node], k)
       ELSE findFromWrongWay(t, t.right[node], k)

RECURSIVE findFrom(_, _, _)
findFrom(t, node, k) ==
  IF node = Null THEN node
  ELSE LET result == compare(k, t.key[node]) IN
       IF result = 0 THEN node
       ELSE IF result < 0 THEN findFrom(t, t.left[node], k)
       ELSE findFrom(t, t.right[node], k)

find(t, k) == findFrom(t, t.root, k)

\* the descent of lower that returns the node it stops at on the left too
RECURSIVE lowerFromNoPred(_, _, _)
lowerFromNoPred(t, node, k) ==
  LET result == compare(k, t.key[node]) IN
  IF result = 0 THEN node
  ELSE IF result < 0
       THEN IF t.left[node] = Null THEN node
            ELSE lowerFromNoPred(t, t.left[node], k)
       ELSE IF t.right[node] = Null THEN node
            ELSE lowerFromNoPred(t, t.right[node], k)

RECURSIVE lowerFrom(_, _, _)
lowerFrom(t, node, k) ==
  LET result == compare(k, t.key[node]) IN
  IF result = 0 THEN node
  ELSE IF result < 0
       THEN IF t.left[node] = Null THEN pred(t, node)
            ELSE lowerFrom(t, t.left[node], k)
       ELSE IF t.right[node] = Null THEN node
            ELSE lowerFrom(t, t.right[node], k)

lower(t, k) == IF t.root = Null THEN Null ELSE lowerFrom(t, t.root, k)

\* the descent of upper that returns the node it stops at on the right too
RECURSIVE upperFromNoSucc(_, _, _)
upperFromNoSucc(t, node, k) ==
  LET result == compare(k, t.key[node]) IN
  IF result = 0 THEN node
  ELSE IF result < 0
       THEN IF t.left[node] = Null THEN node
            ELSE upperFromNoSucc(t, t.left[node], k)
       ELSE IF t.right[node] = Null THEN node
            ELSE upperFromNoSucc(t, t.right[node], k)

RECURSIVE upperFrom(_, _, _)
upperFrom(t, node, k) ==
  LET result == compare(k, t.key[node]) IN
  IF result = 0 THEN node
  ELSE IF result < 0
       THEN IF t.left[node] = Null THEN node
            ELSE upperFrom(t, t.left[node], k)
       ELSE IF t.right[node] = Null THEN succ(t, node)
            ELSE upperFrom(t, t.right[node], k)

upper(t, k) == IF t.root = Null THEN Null ELSE upperFrom(t, t.root, k)

replaceNode(t, node, replacement) ==
  LET p == t.parent[node] IN
  IF p = Null THEN [t EXCEPT !.root = replacement]
  ELSE IF t.left[p] = node THEN [t EXCEPT !.left[p] = replacement]
  ELSE [t EXCEPT !.right[p] = replacement]

rotateLeft(t, node) ==
  LET pivot == t.right[node] IN
  IF pivot = Null THEN Fault(t)
  ELSE
    LET t1 == [t EXCEPT !.right[node] = t.left[pivot]]
        t2 == IF t1.right[node] # Null
              THEN [t1 EXCEPT !.parent[t1.right[node]] = node] ELSE t1
        t3 == replaceNode(t2, node, pivot)
        t4 == [t3 EXCEPT !.parent[pivot] = t3.parent[node]]
        t5 == [t4 EXCEPT !.left[pivot] = node]
    IN [t5 EXCEPT !.parent[node] = pivot, !.rot = @ + 1]

rotateRight(t, node) ==
  LET pivot == t.left[node] IN
  IF pivot = Null THEN Fault(t)
  ELSE
    LET t1 == [t EXCEPT !.left[node] = t.right[pivot]]
        t2 == IF t1.left[node] # Null
              THEN [t1 EXCEPT !.parent[t1.left[node]] = node] ELSE t1
        t3 == replaceNode(t2, node, pivot)
        t4 == [t3 EXCEPT !.parent[pivot] = t3.parent[node]]
        t5 == [t4 EXCEPT !.right[pivot] = node]
    IN [t5 EXCEPT !.parent[node] = pivot, !.rot = @ + 1]

\* case 5 with the parent left red: only the grandparent is repainted
fixupInsertCase5ParentLeftRed(t, p, g, side) ==
  LET t2 == Mark(t, "I5") IN
  IF g = Null THEN Fault(t2)
  ELSE LET t3 == [t2 EXCEPT !.color[g] = RBTREE_COLOR_RED]
       IN IF side = "left" THEN rotateRight(t3, g) ELSE rotateLeft(t3, g)

\* case 5 of _fixupInsert, p the parent and g the grandparent
fixupInsertCase5(t, p, g, side) ==
  LET t2 == [Mark(t, "I5") EXCEPT !.color[p] = RBTREE_COLOR_BLACK] IN
  IF g = Null THEN Fault(t2)
  ELSE LET t3 == [t2 EXCEPT !.color[g] = RBTREE_COLOR_RED]
       IN IF side = "left" THEN rotateRight(t3, g) ELSE rotateLeft(t3, g)

\* cases 4 and 5 without their rotations and repaints
fixupInsertRotateSkipped(t, node, p, grandparent, side) == Mark(t, "I5")

\* cases 4 and 5 of _fixupInsert: side is the parent's side as seen from the
\* grandparent ("left": cases 4a, 5a; "right": cases 4b, 5b)
fixupInsertRotate(t, node, p, grandparent, side) ==
  LET inner == IF side = "left" THEN node = t.right[p] ELSE node = t.left[p]
      t1 == IF ~inner THEN t
            ELSE IF side = "left" THEN rotateLeft(Mark(t, "I4"), p)
            ELSE rotateRight(Mark(t, "I4"), p)
      node1 == IF inner THEN p ELSE node
      parent1 == IF inner THEN t1.parent[node1] ELSE p
  IN IF t1.fault THEN t1
     ELSE IF parent1 = Null THEN Fault(t1)
     ELSE
       LET grandparent1 == IF inner THEN t1.parent[parent1] ELSE grandparent
       IN fixupInsertCase5(t1, parent1, grandparent1, side)

\* case 1 without the repaint: the root keeps the colour it has
fixupInsertCase1NoRepaint(t, node) == Mark(t, "I1")

\* case 1 of _fixupInsert: the current node is the root
fixupInsertCase1(t, node) ==
  [Mark(t, "I1") EXCEPT !.color[node] = RBTREE_COLOR_BLACK]

\* case 3 that goes on with the parent
fixupInsertCase3NextParent(node, p, grandparent) == p

\* case 3 of _fixupInsert: the node the loop continues with
fixupInsertCase3Next(node, p, grandparent) == grandparent

RECURSIVE fixupInsert(_, _)
fixupInsert(t0, node) ==
  LET t == Enter(t0, depthOf(t0, node))
      p == t.parent[node] IN
  IF p = Null THEN fixupInsertCase1(t, node)
  ELSE IF t.color[p] = RBTREE_COLOR_BLACK THEN Mark(t, "I2")
  ELSE
    LET grandparent == t.parent[p] IN
    IF grandparent = Null THEN Fault(t)
    ELSE
      LET side == IF p = t.left[grandparent] THEN "left" ELSE "right"
          uncle == IF side = "left" THEN t.right[grandparent]
                   ELSE t.left[grandparent]
      IN IF uncle # Null /\ t.color[uncle] = RBTREE_COLOR_RED
         THEN LET t1 == [Mark(t, "I3") EXCEPT !.color[p] = RBTREE_COLOR_BLACK]
                  t2 == [t1 EXCEPT !.color[uncle] = RBTREE_COLOR_BLACK]
                  t3 == [t2 EXCEPT !.color[grandparent] = RBTREE_COLOR_RED]
              IN fixupInsert(t3, fixupInsertCase3Next(node, p, grandparent))
         ELSE fixupInsertRotate(t, node, p, grandparent, side)

\* the descent of insert that keeps the old value of a key it finds
RECURSIVE insertFromKeepsValue(_, _, _, _)
insertFromKeepsValue(t, node, k, v) ==
  LET result == compare(k, t.key[node]) IN
  IF result = 0
  THEN [tree |-> t, node |-> node]
  ELSE
    LET child == IF result < 0 THEN t.left[node] ELSE t.right[node] IN
    IF child # Null THEN insertFromKeepsValue(t, child, k, v)
    ELSE
      LET n == Fresh(t, k)
          t1 == RBTreeNode(t, n, node, k, v)
          t2 == IF result < 0 THEN [t1 EXCEPT !.left[node] = n]
                ELSE [t1 EXCEPT !.right[node] = n]
      IN [tree |-> fixupInsert(t2, n), node |-> n]

\* the descent of insert below a non-null root: the tree after the insert
\* and the node that insert returns
RECURSIVE insertFrom(_, _, _, _)
insertFrom(t, node, k, v) ==
  LET result == compare(k, t.key[node]) IN
  IF result = 0
  THEN [tree |-> [t EXCEPT !.value[node] = v], node |-> node]
  ELSE
    LET child == IF result < 0 THEN t.left[node] ELSE t.right[node] IN
    IF child # Null THEN insertFrom(t, child, k, v)
    ELSE
      LET n == Fresh(t, k)
          t1 == RBTreeNode(t, n, node, k, v)
          t2 == IF result < 0 THEN [t1 EXCEPT !.left[node] = n]
                ELSE [t1 EXCEPT !.right[node] = n]
      IN [tree |-> fixupInsert(t2, n), node |-> n]

insert(t, k, v) ==
  IF t.root = Null
  THEN LET n == Fresh(t, k)
           t1 == RBTreeNode(t, n, Null, k, v)
           t2 == [t1 EXCEPT !.root = n]
       IN [tree |-> fixupInsert(t2, n), node |-> n]
  ELSE insertFrom(t, t.root, k, v)

\* BLACK taken to be the colour of nodes only: a null link is not BLACK
isBlackNodeOnly(t, n) == n # Null /\ t.color[n] = RBTREE_COLOR_BLACK

\* an iteration of the removal fixup takes the current node to be on side
Taken(t, side, node, p) ==
  [t EXCEPT !.deficit =
     Append(@, [side |-> side, node |-> node,
                link |-> IF side = "a" THEN t.left[p] ELSE t.right[p],
                sibling |-> IF side = "a" THEN t.right[p] ELSE t.left[p]])]

\* _fixupRemove is written twice in the source, cases 2a-6a for a deficit
\* in the left subtree of parent and cases 2b-6b with left and right
\* exchanged.  far is the sibling's side, near the side of the deficit.
farOf(t, side, n) == IF side = "a" THEN t.right[n] ELSE t.left[n]
nearOf(t, side, n) == IF side = "a" THEN t.left[n] ELSE t.right[n]
rotateNear(t, side, n) == IF side = "a" THEN rotateLeft(t, n) ELSE rotateRight(t, n)
rotateFar(t, side, n) == IF side = "a" THEN rotateRight(t, n) ELSE rotateLeft(t, n)
isBlack(t, n) == n = Null \/ t.color[n] = RBTREE_COLOR_BLACK

\* case 6: the far child of the black sibling is red
fixupRemoveCase6(t, p, side) ==
  LET sibling == farOf(t, side, p) IN
  IF sibling = Null THEN Fault(t)
  ELSE
    LET far == farOf(t, side, sibling)
        t1 == [Mark(t, "R6") EXCEPT !.color[sibling] = t.color[p]]
        t2 == [t1 EXCEPT !.color[p] = RBTREE_COLOR_BLACK]
    IN IF far = Null THEN Fault(t2)
       ELSE rotateNear([t2 EXCEPT !.color[far] = RBTREE_COLOR_BLACK], side, p)

\* case 5: only the near child of the black sibling is red
fixupRemoveCase5(t, p, sibling, near, side) ==
  LET t1 == [Mark(t, "R5") EXCEPT !.color[sibling] = RBTREE_COLOR_RED]
      t2 == [t1 EXCEPT !.color[near] = RBTREE_COLOR_BLACK]
      t3 == rotateFar(t2, side, sibling)
  IN IF t3.fault THEN t3 ELSE fixupRemoveCase6(t3, p, side)

\* case 2: the sibling is red
fixupRemoveCase2(t, p, sibling, side) ==
  IF t.color[sibling] = RBTREE_COLOR_RED
  THEN LET t1 == [Mark(t, "R2") EXCEPT !.color[p] = RBTREE_COLOR_RED]
           t2 == [t1 EXCEPT !.color[sibling] = RBTREE_COLOR_BLACK]
       IN rotateNear(t2, side, p)
  ELSE t

RECURSIVE fixupRemoveLoop(_, _, _)
fixupRemoveLoop(t0, node, p) ==
  LET t == Enter(t0, IF p = Null THEN 0 ELSE depthOf(t0, p) + 1) IN
  IF p = Null THEN Mark(t, "R1")
  ELSE
    LET side == IF node # t.right[p] THEN "a" ELSE "b"
        sibling0 == farOf(t, side, p)
        ta == Taken(t, side, node, p)
    IN IF sibling0 = Null THEN Fault(ta)
       ELSE
         LET t1 == fixupRemoveCase2(ta, p, sibling0, side)
             sibling == farOf(t1, side, p)
         IN IF t1.fault THEN t1
            ELSE IF sibling = Null THEN Fault(t1)
            ELSE
              LET far == farOf(t1, side, sibling)
                  near == nearOf(t1, side, sibling)
              IN IF isBlack(t1, far)
                 THEN IF isBlack(t1, near)
                      THEN LET t2 == [t1 EXCEPT !.color[sibling] = RBTREE_COLOR_RED]
                           IN IF t2.color[p] = RBTREE_COLOR_RED
                              THEN [Mark(t2, "R3") EXCEPT
                                      !.color[p] = RBTREE_COLOR_BLACK]
                              ELSE fixupRemoveLoop(Mark(t2, "R4"), p,
                                                   t2.parent[p])
                      ELSE fixupRemoveCase5(t1, p, sibling, near, side)
                 ELSE fixupRemoveCase6(t1, p, side)

\* the removal fixup run a second time from the same parent
fixupRemoveTwice(t, p) ==
  LET t1 == fixupRemoveLoop(t, Null, p)
  IN IF t1.fault THEN t1 ELSE fixupRemoveLoop(t1, Null, p)

fixupRemove(t, p) == fixupRemoveLoop(t, Null, p)

\* Case 1 that never asks for a rebalance
removeCase1NoRebalance(t, node) ==
  LET r == t.right[node]
      t1 == replaceNode(Mark(t, "D1"), node, r)
  IN IF r # Null
     THEN LET t2 == [t1 EXCEPT !.parent[r] = t1.parent[node]]
          IN [tree |-> [t2 EXCEPT !.color[r] = RBTREE_COLOR_BLACK],
              rebalance |-> Null]
     ELSE [tree |-> t1, rebalance |-> Null]

\* Case 1 of remove: node has no left child
removeCase1(t, node) ==
  LET r == t.right[node]
      t1 == replaceNode(Mark(t, "D1"), node, r)
  IN IF r # Null
     THEN LET t2 == [t1 EXCEPT !.parent[r] = t1.parent[node]]
          IN [tree |-> [t2 EXCEPT !.color[r] = RBTREE_COLOR_BLACK],
              rebalance |-> Null]
     ELSE [tree |-> t1,
           rebalance |-> IF t1.color[node] = RBTREE_COLOR_BLACK
                         THEN t1.parent[node] ELSE Null]

\* Case 2 of remove: node has a left child and no right child
removeCase2(t, node) ==
  LET l == t.left[node]
      t1 == replaceNode(Mark(t, "D2"), node, l)
      t2 == [t1 EXCEPT !.parent[l] = t1.parent[node]]
  IN [tree |-> [t2 EXCEPT !.color[l] = RBTREE_COLOR_BLACK], rebalance |-> Null]

\* the parent of the leftmost node below s (the do-while of case 3)
RECURSIVE leftmostParent(_, _)
leftmostParent(t, s) ==
  IF t.left[t.left[s]] # Null THEN leftmostParent(t, t.left[s]) ELSE s

\* Case 3 done by copying: node takes the key and the value of its
\* successor and the successor is unlinked in its place
removeCase3CopiesKey(t, node) ==
  LET s == leftmost(t, t.right[node])
      p == t.parent[s]
      r == t.right[s]
      t0 == Mark(t, IF p # node THEN "D3deep" ELSE "D3")
      t1 == [t0 EXCEPT !.key[node] = t.key[s], !.value[node] = t.value[s]]
      t2 == replaceNode(t1, s, r)
      t3 == IF r # Null
            THEN [t2 EXCEPT !.parent[r] = p, !.color[r] = RBTREE_COLOR_BLACK]
            ELSE t2
  IN [tree |-> t3,
      rebalance |-> IF r = Null /\ t.color[s] = RBTREE_COLOR_BLACK
                    THEN p ELSE Null]

\* Case 3 that leaves the successor's left link as it was
removeCase3LeftNotMoved(t, node) ==
  LET s0 == t.right[node]
      deep == t.left[s0] # Null
      p == IF deep THEN leftmostParent(t, s0) ELSE s0
      s == IF deep THEN t.left[p] ELSE s0
      r == t.right[s]
      t0 == Mark(t, IF deep THEN "D3deep" ELSE "D3")
      t1 == IF deep THEN [t0 EXCEPT !.left[p] = r] ELSE t0
      t2 == IF deep THEN [t1 EXCEPT !.right[s] = t1.right[node]] ELSE t1
      t3 == IF deep THEN [t2 EXCEPT !.parent[t2.right[node]] = s] ELSE t2
      t4 == IF r # Null THEN [t3 EXCEPT !.parent[r] = p] ELSE t3
      t5 == IF r # Null THEN [t4 EXCEPT !.color[r] = RBTREE_COLOR_BLACK]
            ELSE t4
      rebalance == IF r = Null /\ t3.color[s] = RBTREE_COLOR_BLACK
                   THEN p ELSE Null
      t6 == replaceNode(t5, node, s)
      t7 == [t6 EXCEPT !.parent[s] = t6.parent[node]]
      t8 == [t7 EXCEPT !.color[s] = t7.color[node]]
      t9 == t8
  IN [tree |-> [t9 EXCEPT !.parent[t9.left[node]] = s], rebalance |-> rebalance]

\* Case 3 of remove: node has two children
removeCase3(t, node) ==
  LET s0 == t.right[node]
      deep == t.left[s0] # Null
      p == IF deep THEN leftmostParent(t, s0) ELSE s0
      s == IF deep THEN t.left[p] ELSE s0
      r == t.right[s]
      t0 == Mark(t, IF deep THEN "D3deep" ELSE "D3")
      t1 == IF deep THEN [t0 EXCEPT !.left[p] = r] ELSE t0
      t2 == IF deep THEN [t1 EXCEPT !.right[s] = t1.right[node]] ELSE t1
      t3 == IF deep THEN [t2 EXCEPT !.parent[t2.right[node]] = s] ELSE t2
      t4 == IF r # Null THEN [t3 EXCEPT !.parent[r] = p] ELSE t3
      t5 == IF r # Null THEN [t4 EXCEPT !.color[r] = RBTREE_COLOR_BLACK]
            ELSE t4
      rebalance == IF r = Null /\ t3.color[s] = RBTREE_COLOR_BLACK
                   THEN p ELSE Null
      t6 == replaceNode(t5, node, s)
      t7 == [t6 EXCEPT !.parent[s] = t6.parent[node]]
      t8 == [t7 EXCEPT !.color[s] = t7.color[node]]
      t9 == [t8 EXCEPT !.left[s] = t8.left[node]]
  IN [tree |-> [t9 EXCEPT !.parent[t9.left[node]] = s], rebalance |-> rebalance]

\* remove that looks its node up by key
removeByKey(t, node) ==
  LET m == find(t, t.key[node]) IN
  IF m = Null THEN t
  ELSE
    LET r == IF t.left[m] = Null THEN removeCase1(t, m)
             ELSE IF t.right[m] = Null THEN removeCase2(t, m)
             ELSE removeCase3(t, m)
        t1 == IF r.rebalance # Null THEN fixupRemove(r.tree, r.rebalance)
              ELSE r.tree
    IN Dispose(t1, m)

remove(t, node) ==
  LET r == IF t.left[node] = Null THEN removeCase1(t, node)
           ELSE IF t.right[node] = Null THEN removeCase2(t, node)
           ELSE removeCase3(t, node)
      t1 == IF r.rebalance # Null THEN fixupRemove(r.tree, r.rebalance)
            ELSE r.tree
  IN Dispose(t1, node)

\* the parents' child links rewired as if the nodes were never siblings
swapParentsNoSiblings(t, node1, node2) ==
  replaceNode(replaceNode(t, node2, node1), node1, node2)

\* the first statement of swap that rewires the parents' child links
swapParents(t, node1, node2) ==
  IF t.parent[node1] = t.parent[node2]
  THEN LET p == t.parent[node1] IN
       IF p = Null THEN Fault(t)
       ELSE IF t.left[p] = node1
            THEN LET t1 == [t EXCEPT !.left[p] = node2]
                 IN [t1 EXCEPT !.right[p] = node1]
            ELSE LET t1 == [t EXCEPT !.right[p] = node2]
                 IN [t1 EXCEPT !.left[p] = node1]
  ELSE replaceNode(replaceNode(t, node2, node1), node1, node2)

\* swap that leaves the _parent of the exchanged children as it was
adoptNothing(t, f, n) == t

\* f._parent = n when f is a node (the guarded assignments of swap)
adopt(t, f, n) == IF f # Null THEN [t EXCEPT !.parent[f] = n] ELSE t

\* F applied to the value of v: the statements after a statement run in the
\* heap that the statement left
Bind(v, F(_)) == CHOOSE r \in {F(x) : x \in {v}} : TRUE

\* swap, lines 391-393: the _parent fields exchanged
swapParentFields(t, node1, node2) ==
  LET p == t.parent[node1]
      t1 == [t EXCEPT !.parent[node1] = t.parent[node2]]
  IN [t1 EXCEPT !.parent[node2] = p]

\* swap, lines 394-402: the _left fields exchanged, the children adopted
swapLeftFields(t, node1, node2) ==
  LET l == t.left[node1]
      t1 == [t EXCEPT !.left[node1] = t.left[node2]]
      t2 == adopt(t1, t1.left[node1], node1)
      t3 == [t2 EXCEPT !.left[node2] = l]
  IN adopt(t3, t3.left[node2], node2)

\* swap that gives node1 the right child of node2 and node2 nothing back
swapRightFieldsOneWay(t, node1, node2) ==
  LET t1 == [t EXCEPT !.right[node1] = t.right[node2]]
  IN adopt(t1, t1.right[node1], node1)

\* swap, lines 403-411: the _right fields exchanged, the children adopted
swapRightFields(t, node1, node2) ==
  LET r == t.right[node1]
      t1 == [t EXCEPT !.right[node1] = t.right[node2]]
      t2 == adopt(t1, t1.right[node1], node1)
      t3 == [t2 EXCEPT !.right[node2] = r]
  IN adopt(t3, t3.right[node2], node2)

\* swap that leaves each node the colour it has
swapColorsKept(t, node1, node2) == t

\* swap, lines 412-414: the colours exchanged
swapColors(t, node1, node2) ==
  LET c == t.color[node1]
      t1 == [t EXCEPT !.color[node1] = t.color[node2]]
  IN [t1 EXCEPT !.color[node2] = c]

swap(t, node1, node2) ==
  IF node1 = node2 THEN t
  ELSE
    Bind(swapParents(t, node1, node2), LAMBDA ta :
      IF ta.fault THEN ta
      ELSE
        Bind(swapParentFields(ta, node1, node2), LAMBDA tb :
          Bind(swapLeftFields(tb, node1, node2), LAMBDA tc :
            Bind(swapRightFields(tc, node1, node2), LAMBDA td :
              swapColors(td, node1, node2)))))

\* A loop of reverse that has made more swaps than there are objects has
\* let its two pointers pass each other: it is cut there and reported.
Runaway(n) == n > Cardinality(Nodes)

\* the loop of reverse that reads first.succ after the swap
RECURSIVE reverseLoopLateSucc(_, _, _, _)
reverseLoopLateSucc(t, first, lst, n) ==
  IF first = lst THEN [tree |-> t, swaps |-> n, exit |-> "test"]
  ELSE IF first = Null \/ lst = Null
       THEN [tree |-> Fault(t), swaps |-> n, exit |-> "fault"]
  ELSE IF Runaway(n) THEN [tree |-> t, swaps |-> n, exit |-> "runaway"]
  ELSE
    LET q == pred(t, lst)
    IN Bind(swap(t, first, lst), LAMBDA t1 :
         IF t1.fault THEN [tree |-> t1, swaps |-> n + 1, exit |-> "fault"]
         ELSE IF q = first
              THEN [tree |-> t1, swaps |-> n + 1, exit |-> "break"]
         ELSE reverseLoopLateSucc(t1, succ(t1, first), q, n + 1))

\* the loop of reverse without the test after last is moved
RECURSIVE reverseLoopNoBreak(_, _, _, _)
reverseLoopNoBreak(t, first, lst, n) ==
  IF first = lst THEN [tree |-> t, swaps |-> n, exit |-> "test"]
  ELSE IF first = Null \/ lst = Null
       THEN [tree |-> Fault(t), swaps |-> n, exit |-> "fault"]
  ELSE IF Runaway(n) THEN [tree |-> t, swaps |-> n, exit |-> "runaway"]
  ELSE
    LET s == succ(t, first)
        q == pred(t, lst)
    IN Bind(swap(t, first, lst), LAMBDA t1 :
         IF t1.fault THEN [tree |-> t1, swaps |-> n + 1, exit |-> "fault"]
         ELSE reverseLoopNoBreak(t1, s, q, n + 1))

\* reverse: the tree after the loop, the number of swaps it made and the
\* place where it left the loop: "test" is the loop test first !== last,
\* "break" the test after last is moved.  first.succ and last.pred of null
\* are reads of null.
RECURSIVE reverseLoop(_, _, _, _)
reverseLoop(t, first, lst, n) ==
  IF first = lst THEN [tree |-> t, swaps |-> n, exit |-> "test"]
  ELSE IF first = Null \/ lst = Null
       THEN [tree |-> Fault(t), swaps |-> n, exit |-> "fault"]
  ELSE IF Runaway(n) THEN [tree |-> t, swaps |-> n, exit |-> "runaway"]
  ELSE
    LET s == succ(t, first)
        q == pred(t, lst)
    IN Bind(swap(t, first, lst), LAMBDA t1 :
         IF t1.fault THEN [tree |-> t1, swaps |-> n + 1, exit |-> "fault"]
         ELSE IF q = first
              THEN [tree |-> t1, swaps |-> n + 1, exit |-> "break"]
         ELSE reverseLoop(t1, s, q, n + 1))

reverse(t, first, lst) == reverseLoop(t, first, lst, 0).tree

\* ---------------------------------------------------------------- validate
\* assert.strictEqual(actual, expected) returns when the two are the same
\* and throws an AssertionError when they are not.
strictEqual(actual, expected) == actual = expected

\* RBTreeNode.prototype.validate: how the call ends ("ok" when it returns,
\* "assert" when an assertion throws, "type" when it reads a property of
\* null) and the count it returns.  leftCount and rightCount are set to 1
\* and not assigned again: the values returned by left.validate() and
\* right.validate() are dropped.  The test for the right child reads
\* left._color.
RECURSIVE validateNode(_, _)
validateNode(t, this) ==
  LET lft == t.left[this]
      leftCount == 1
      rgt == t.right[this]
      rightCount == 1
      thrown(o) == [out |-> o, count |-> 0]
      leftPart ==
        IF lft = Null THEN "ok"
        ELSE IF /\ t.color[this] = RBTREE_COLOR_RED
                /\ ~strictEqual(t.color[lft], RBTREE_COLOR_BLACK)
             THEN "assert"
        ELSE validateNode(t, lft).out
      rightPart ==
        IF rgt = Null THEN "ok"
        ELSE IF t.color[this] = RBTREE_COLOR_RED /\ lft = Null THEN "type"
        ELSE IF /\ t.color[this] = RBTREE_COLOR_RED
                /\ ~strictEqual(t.color[lft], RBTREE_COLOR_BLACK)
             THEN "assert"
        ELSE validateNode(t, rgt).out
  IN IF leftPart # "ok" THEN thrown(leftPart)
     ELSE IF rightPart # "ok" THEN thrown(rightPart)
     ELSE IF ~strictEqual(leftCount, rightCount) THEN thrown("assert")
     ELSE [out |-> "ok",
           count |-> IF t.color[this] = RBTREE_COLOR_BLACK
                     THEN leftCount + 1 ELSE leftCount]

\* RBTree.prototype.validate
validate(t) ==
  IF t.root = Null THEN "ok"
  ELSE IF ~strictEqual(t.color[t.root], RBTREE_COLOR_BLACK) THEN "assert"
  ELSE validateNode(t, t.root).out

\* the nodes met by following succ from min, and pred from max; a walk that
\* has not ended after one step more than there are objects never ends
RECURSIVE succWalk(_, _, _)
succWalk(t, n, fuel) ==
  IF n = Null \/ fuel = 0 THEN <<>>
  ELSE <<n>> \o succWalk(t, succ(t, n), fuel - 1)

RECURSIVE predWalk(_, _, _)
predWalk(t, n, fuel) ==
  IF n = Null \/ fuel = 0 THEN <<>>
  ELSE <<n>> \o predWalk(t, pred(t, n), fuel - 1)

SuccSeq(t) == succWalk(t, min(t), Cardinality(Nodes) + 1)
PredSeq(t) == predWalk(t, max(t), Cardinality(Nodes) + 1)

Backwards(w) == [i \in 1 .. Len(w) |-> w[Len(w) + 1 - i]]
KeysOf(t, w) == [i \in 1 .. Len(w) |-> t.key[w[i]]]
Range(w) == {w[i] : i \in 1 .. Len(w)}

\* the sequence w without the node n, with a and b exchanged, and with the
\* positions i .. j in reverse order
Without(w, n) == SelectSeq(w, LAMBDA x : x # n)
Transposed(w, a, b) ==
  [i \in 1 .. Len(w) |-> IF w[i] = a THEN b ELSE IF w[i] = b THEN a ELSE w[i]]
Reversed(w, i, j) ==
  [x \in 1 .. Len(w) |-> IF i <= x /\ x <= j THEN w[i + j - x] ELSE w[x]]
Position(w, n) == CHOOSE i \in 1 .. Len(w) : w[i] = n

\* ------------------------------------------------------- the state machine
\* last is the call that ran last and what it returned.  store is the
\* caller's own record of what it stored, kept as the tests keep their keys
\* and values arrays: store[k] is the value last inserted under k, or 0 when
\* k was never inserted or the node holding it has been removed.  order is
\* the caller's record of the nodes in tree order, kept as the swap test
\* keeps its nodes array: read off the tree after an insert, and from then
\* on updated by what each call is meant to do to the order.  pre is the
\* heap as it was when the last remove, swap or reverse was called (the
\* empty heap after any other call).
NoOp == [op |-> "init", key |-> 0, val |-> 0, n1 |-> Null, n2 |-> Null,
         ret |-> Null, exit |-> "", out |-> ""]

NoHeap ==
  [root |-> Null, parent |-> [n \in Nodes |-> Null],
   left |-> [n \in Nodes |-> Null], right |-> [n \in Nodes |-> Null],
   color |-> [n \in Nodes |-> RBTREE_COLOR_RED], key |-> [n \in Nodes |-> 0],
   value |-> [n \in Nodes |-> 0], nodes |-> {}, fault |-> FALSE,
   trace |-> <<>>, rot |-> 0, climb |-> <<>>, deficit |-> <<>>]

\* new RBTree(compare)
Init ==
  /\ root = Null
  /\ parent = [n \in Nodes |-> Null]
  /\ left = [n \in Nodes |-> Null]
  /\ right = [n \in Nodes |-> Null]
  /\ color = [n \in Nodes |-> RBTREE_COLOR_RED]
  /\ key = [n \in Nodes |-> 0]
  /\ value = [n \in Nodes |-> 0]
  /\ nodes = {}
  /\ fault = FALSE
  /\ trace = <<>>
  /\ rot = 0
  /\ climb = <<>>
  /\ deficit = <<>>
  /\ last = NoOp
  /\ store = [k \in Keys |-> 0]
  /\ order = <<>>
  /\ pre = NoHeap

Commit(t) ==
  /\ root' = t.root
  /\ parent' = t.parent
  /\ left' = t.left
  /\ right' = t.right
  /\ color' = t.color
  /\ key' = t.key
  /\ value' = t.value
  /\ nodes' = t.nodes
  /\ fault' = t.fault
  /\ trace' = t.trace
  /\ rot' = t.rot
  /\ climb' = t.climb
  /\ deficit' = t.deficit

Heap == <<root, parent, left, right, color, key, value, nodes, fault, trace,
          rot, climb, deficit>>

\* tree.insert(k, v) with k and v drawn from KS and VS
InsertIn(KS, VS) ==
  \E k \in KS, v \in VS :
    /\ ~fault
    /\ LET r == insert(Begin(Tree), k, v) IN
       /\ Commit(r.tree)
       /\ last' = [NoOp EXCEPT !.op = "insert", !.key = k, !.val = v,
                               !.ret = r.node]
       /\ store' = [store EXCEPT ![k] = v]
       /\ order' = SuccSeq(r.tree)
       /\ pre' = NoHeap

\* tree.remove(n) for a node n of the tree
Remove ==
  \E n \in nodes :
    /\ ~fault
    /\ Commit(remove(Begin(Tree), n))
    /\ last' = [NoOp EXCEPT !.op = "remove", !.n1 = n, !.key = key[n],
                            !.val = value[n]]
    /\ store' = [store EXCEPT ![key[n]] = 0]
    /\ order' = Without(order, n)
    /\ pre' = Begin(Tree)

\* tree.find(k)
Find ==
  \E k \in QueryKeys :
    /\ ~fault
    /\ last' = [NoOp EXCEPT !.op = "find", !.key = k, !.ret = find(Tree, k)]
    /\ pre' = NoHeap
    /\ UNCHANGED <<Heap, store, order>>

\* tree.lower(k)
Lower ==
  \E k \in QueryKeys :
    /\ ~fault
    /\ last' = [NoOp EXCEPT !.op = "lower", !.key = k, !.ret = lower(Tree, k)]
    /\ pre' = NoHeap
    /\ UNCHANGED <<Heap, store, order>>

\* tree.upper(k)
Upper ==
  \E k \in QueryKeys :
    /\ ~fault
    /\ last' = [NoOp EXCEPT !.op = "upper", !.key = k, !.ret = upper(Tree, k)]
    /\ pre' = NoHeap
    /\ UNCHANGED <<Heap, store, order>>

\* Every sequence of insert and remove from the empty tree, over MaxKey
\* keys.  The rebalancing never reads a value, so one value is stored.
Insert == InsertIn(Keys, {1})

Next == Insert \/ Remove

Spec == Init /\ [][Next]_vars

\* Every sequence of insert and remove from the empty tree with the queries
\* in between, over MaxQueryKey keys and MaxVal values.
InsertValue == InsertIn(1 .. MaxQueryKey, Values)

NextQuery == InsertValue \/ Remove \/ Find \/ Lower \/ Upper

SpecQuery == Init /\ [][NextQuery]_vars

\* tree.swap(a, b) for two nodes of the tree
Swap ==
  \E a \in nodes, b \in nodes :
    /\ ~fault
    /\ Commit(swap(Begin(Tree), a, b))
    /\ last' = [NoOp EXCEPT !.op = "swap", !.n1 = a, !.n2 = b]
    /\ order' = Transposed(order, a, b)
    /\ pre' = Begin(Tree)
    /\ UNCHANGED store

\* tree.reverse(a, b) for two nodes of the tree, a at or before b in tree
\* order; ret is the number of swaps the call made and exit the place where
\* it left its loop
Reverse ==
  \E a \in nodes, b \in nodes :
    /\ ~fault
    /\ Position(SuccSeq(Tree), a) <= Position(SuccSeq(Tree), b)
    /\ LET r == reverseLoop(Begin(Tree), a, b, 0) IN
       /\ Commit(r.tree)
       /\ last' = [NoOp EXCEPT !.op = "reverse", !.n1 = a, !.n2 = b,
                               !.ret = r.swaps, !.exit = r.exit]
    /\ order' = Reversed(order, Position(order, a), Position(order, b))
    /\ pre' = Begin(Tree)
    /\ UNCHANGED store

\* Every sequence of insert, remove, swap and reverse from the empty tree,
\* over MaxSwapKey keys.  Once swaps have changed the key order, the descent
\* of insert may miss a stored key and store it twice; the caller inserts
\* only keys that are not stored.
InsertFew == InsertIn({k \in 1 .. MaxSwapKey : store[k] = 0}, {1})

NextSwap == InsertFew \/ Remove \/ Swap \/ Reverse

SpecSwap == Init /\ [][NextSwap]_vars

\* A tree that is not a red-black tree, as validate is there to detect: a
\* node of a tree built by insert has its _color field written.
Recolor ==
  \E n \in nodes, c \in {RBTREE_COLOR_RED, RBTREE_COLOR_BLACK} :
    /\ ~fault
    /\ c # color[n]
    /\ color' = [color EXCEPT ![n] = c]
    /\ last' = [NoOp EXCEPT !.op = "recolor", !.n1 = n, !.val = c]
    /\ pre' = NoHeap
    /\ UNCHANGED <<root, parent, left, right, key, value, nodes, fault,
                   trace, rot, climb, deficit, store, order>>

\* tree.validate(); out is how the call ended
Validate ==
  /\ ~fault
  /\ last.op # "validate"
  /\ last' = [NoOp EXCEPT !.op = "validate", !.out = validate(Tree)]
  /\ pre' = NoHeap
  /\ UNCHANGED <<Heap, store, order>>

\* inserts into a tree whose fields nobody has written
Grow ==
  /\ last.op \in {"init", "insert"}
  /\ InsertIn(1 .. MaxValidateKey, {1})

\* Trees built by insert over MaxValidateKey keys, then recoloured in every
\* way, and validate called on each.
NextValidate == Grow \/ Recolor \/ Validate

SpecValidate == Init /\ [][NextValidate]_vars

\* ------------------------------------------------------------ observations
\* the number of BLACK nodes on every path from the link n down to a null
\* link, the null link counted as BLACK; -1 when two paths disagree
RECURSIVE blackHeight(_, _)
blackHeight(t, n) ==
  IF n = Null THEN 1
  ELSE LET l == blackHeight(t, t.left[n])
           r == blackHeight(t, t.right[n])
       IN IF l = -1 \/ r = -1 \/ l # r THEN -1
          ELSE IF t.color[n] = RBTREE_COLOR_BLACK THEN l + 1 ELSE l

\* does the fixup trace hold the case c
InTrace(c) == \E i \in 1 .. Len(trace) : trace[i] = c

\* C1: after every insert and every remove, from the empty tree on, no RED
\* node of the tree has a RED left child or a RED right child.
C1_NoRedRed ==
  \A n \in nodes :
    color[n] = RBTREE_COLOR_RED =>
      /\ left[n] # Null => color[left[n]] = RBTREE_COLOR_BLACK
      /\ right[n] # Null => color[right[n]] = RBTREE_COLOR_BLACK

\* an insert whose fixup repainted (case 3), went up to the grandparent and
\* there rotated twice (cases 4 and 5), leaving a RED node with children
C1_Witness ==
  /\ last.op = "insert"
  /\ trace = <<"I3", "I4", "I5">>
  /\ \E n \in nodes : color[n] = RBTREE_COLOR_RED /\ left[n] # Null
                      /\ right[n] # Null

\* C2: after every insert and every remove, from the empty tree on, all
\* paths from a node down to a null link hold the same number of BLACK nodes.
C2_EqualBlackHeight ==
  /\ blackHeight(Tree, root) # -1
  /\ \A n \in nodes : blackHeight(Tree, n) # -1

\* a remove of a node with two children that moved its BLACK right child, a
\* leaf, into its place: the deficit met a RED sibling (case 2) and was
\* resolved by the rotations of cases 5 and 6
C2_Witness ==
  /\ last.op = "remove"
  /\ trace = <<"D3", "R2", "R5", "R6">>
  /\ blackHeight(Tree, root) >= 3

\* C3: after every insert and every remove, from the empty tree on, the root
\* of a non-empty tree is BLACK.
C3_RootBlack == root # Null => color[root] = RBTREE_COLOR_BLACK

\* an insert whose fixup painted the root RED (case 3 at the root's
\* children) and then BLACK again (case 1)
C3_Witness ==
  /\ last.op = "insert"
  /\ Len(trace) >= 2
  /\ trace[Len(trace)] = "I1"
  /\ trace[Len(trace) - 1] = "I3"
  /\ color[root] = RBTREE_COLOR_BLACK

\* the keys the caller has stored, and their sorted copy
StoredKeys == {k \in Keys : store[k] # 0}

RECURSIVE Sorted(_)
Sorted(S) ==
  IF S = {} THEN <<>>
  ELSE LET m == CHOOSE x \in S : \A y \in S : compare(x, y) <= 0
       IN <<m>> \o Sorted(S \ {m})

\* C4: in every tree reached by inserts and removes, following succ from min
\* visits every stored node once, in strictly increasing key order, the keys
\* being the sorted stored keys, and ends with null; following pred from max
\* yields the reverse sequence.
C4_OrderedWalk ==
  LET w == SuccSeq(Tree) IN
  /\ KeysOf(Tree, w) = Sorted(StoredKeys)
  /\ \A i \in 1 .. Len(w) - 1 : compare(key[w[i]], key[w[i + 1]]) < 0
  /\ Range(w) = nodes
  /\ Len(w) = Cardinality(nodes)
  /\ PredSeq(Tree) = Backwards(w)

\* a tree of three levels or more, reached by inserts and removes, whose
\* stored keys are not consecutive
C4_Witness ==
  /\ last.op = "remove"
  /\ Cardinality(nodes) >= 7
  /\ left[min(Tree)] = Null /\ right[min(Tree)] # Null
  /\ \E k \in Keys : k \notin StoredKeys /\ k - 1 \in StoredKeys
                     /\ k + 1 \in StoredKeys
  /\ Len(SuccSeq(Tree)) = Cardinality(nodes)

Max(S) == CHOOSE x \in S : \A y \in S : y <= x
Min(S) == CHOOSE x \in S : \A y \in S : x <= y

\* C5: after each remove(find(k)) the walk by succ from min, and the walk by
\* pred from max reversed, list the keys not removed yet, sorted, every node
\* with the value it was inserted with; the tree is empty if and only if no
\* key is left.
C5_RemoveLeavesTheRest ==
  last.op = "remove" =>
    LET w == SuccSeq(Tree) IN
    /\ last.key \notin StoredKeys
    /\ KeysOf(Tree, w) = Sorted(StoredKeys)
    /\ \A i \in 1 .. Len(w) : value[w[i]] = store[key[w[i]]]
    /\ PredSeq(Tree) = Backwards(w)
    /\ empty(Tree) <=> StoredKeys = {}

\* a remove of a node with two children whose successor lay deeper than its
\* right child, the nodes left holding different values
C5_Witness ==
  /\ last.op = "remove"
  /\ trace[1] = "D3deep"
  /\ Cardinality(nodes) >= 3
  /\ \E a, b \in nodes : value[a] # value[b]

\* C6: in every tree reached by inserts and removes, find(k) returns a node
\* with key k if k is stored and null if it is not.
C6_Find ==
  \A k \in QueryKeys :
    LET n == find(Tree, k) IN
    IF k \in StoredKeys THEN n \in nodes /\ compare(k, key[n]) = 0
    ELSE n = Null

\* a find that returned a node two levels below the root
C6_Witness ==
  /\ last.op = "find"
  /\ last.ret # Null
  /\ key[last.ret] = last.key
  /\ parent[last.ret] # Null
  /\ parent[parent[last.ret]] # Null

\* C7: in every tree reached by inserts and removes, lower(k) returns the
\* node with the greatest stored key <= k, and null exactly when every stored
\* key is greater than k.
C7_Lower ==
  \A k \in QueryKeys :
    LET n == lower(Tree, k)
        S == {j \in StoredKeys : j <= k}
    IN IF S = {} THEN n = Null
       ELSE n \in nodes /\ key[n] = Max(S)

\* a lower that found its answer as the predecessor of the node where the
\* descent ended: the answer has a smaller key and a right child
C7_Witness ==
  /\ last.op = "lower"
  /\ last.ret # Null
  /\ key[last.ret] < last.key
  /\ right[last.ret] # Null

\* C8: in every tree reached by inserts and removes, upper(k) returns the
\* node with the least stored key >= k, and null exactly when every stored
\* key is less than k.
C8_Upper ==
  \A k \in QueryKeys :
    LET n == upper(Tree, k)
        S == {j \in StoredKeys : j >= k}
    IN IF S = {} THEN n = Null
       ELSE n \in nodes /\ key[n] = Min(S)

\* an upper that found its answer as the successor of the node where the
\* descent ended: the answer has a larger key and a left child
C8_Witness ==
  /\ last.op = "upper"
  /\ last.ret # Null
  /\ key[last.ret] > last.key
  /\ left[last.ret] # Null

\* C9: insert(k, v) into a tree that stores k returns the node that held k,
\* sets its value to v, creates no node and leaves the root, the links and
\* the colours as they were.
C9_InsertExisting ==
  [][(last'.op = "insert" /\ \E n \in nodes : key[n] = last'.key) =>
       /\ last'.ret \in nodes
       /\ key[last'.ret] = last'.key
       /\ value' = [value EXCEPT ![last'.ret] = last'.val]
       /\ nodes' = nodes
       /\ key' = key
       /\ root' = root
       /\ parent' = parent
       /\ left' = left
       /\ right' = right
       /\ color' = color]_vars

\* an insert of a stored key with a new value: no fixup ran, and the node
\* returned, not the root, holds the new value
C9_Witness ==
  /\ last.op = "insert"
  /\ trace = <<>>
  /\ last.ret \in nodes
  /\ last.ret # root
  /\ value[last.ret] = last.val
  /\ \E n \in nodes : value[n] # last.val

\* C10: after swap(a, b), for any two nodes of the tree, the walk by succ
\* from min is the walk before with a and b exchanged and every other node
\* in place, and every node keeps its key and value; after any sequence of
\* swaps the walk is the original one with the same transpositions applied.
C10_Swap ==
  last.op = "swap" =>
    LET w == SuccSeq(Tree) IN
    /\ w = Transposed(SuccSeq(pre), last.n1, last.n2)
    /\ Len(w) = Cardinality(nodes)
    /\ w = order
    /\ key = pre.key
    /\ value = pre.value
    /\ nodes = pre.nodes

\* a swap of a node with its parent (now its child) in a tree whose key
\* order earlier swaps had already changed
C10_Witness ==
  /\ last.op = "swap"
  /\ parent[last.n1] = last.n2
  /\ Cardinality(nodes) >= 4
  /\ SuccSeq(Tree) = order
  /\ \E i \in 1 .. Len(order) - 1 :
       /\ order[i] \notin {last.n1, last.n2}
       /\ order[i + 1] \notin {last.n1, last.n2}
       /\ key[order[i]] > key[order[i + 1]]

\* the positions of the range of the last reverse in the walk before it
RangeFrom == Position(SuccSeq(pre), last.n1)
RangeTo == Position(SuccSeq(pre), last.n2)
RangeLen == RangeTo - RangeFrom + 1

\* C11: after reverse(first, last), first at or before last in tree order,
\* the walk before the range and after the range is as it was, and the
\* positions of the range hold the nodes of the range in reverse order, with
\* their keys; for ranges of length 1, of even length and of odd length.
C11_Reverse ==
  last.op = "reverse" =>
    LET w == SuccSeq(Tree)
        w0 == SuccSeq(pre)
    IN /\ ~fault
       /\ w = Reversed(w0, RangeFrom, RangeTo)
       /\ \A i \in 1 .. Len(w0) :
            (i < RangeFrom \/ i > RangeTo) => w[i] = w0[i]
       /\ \A i \in RangeFrom .. RangeTo : w[i] = w0[RangeFrom + RangeTo - i]
       /\ w = order
       /\ Len(w) = Cardinality(nodes)
       /\ key = pre.key
       /\ value = pre.value
       /\ nodes = pre.nodes

\* a reverse of a range of three nodes with a node left outside it
C11_Witness ==
  /\ last.op = "reverse"
  /\ RangeLen = 3
  /\ Cardinality(nodes) = 4
  /\ SuccSeq(Tree) # SuccSeq(pre)
  /\ SuccSeq(Tree) = Reversed(SuccSeq(pre), RangeFrom, RangeTo)

\* The object that insert(k, v) allocated: a new object is named after its
\* key (Fresh), and no key is stored twice where nodes are never swapped.
Inserted(k) == k

\* C12: the node that insert(k, v) returned stays a member of the tree, with
\* key k and the value last stored for k, and is what find(k) returns, after
\* any later inserts of other keys and removals of other nodes, until it is
\* removed itself; a removal never changes the key or value of another node.
C12_StableHandles ==
  /\ last.op = "insert" => last.ret = Inserted(last.key)
  /\ nodes = {Inserted(k) : k \in {j \in Keys : store[j] # 0}}
  /\ \A k \in Keys :
       store[k] # 0 =>
         LET n == Inserted(k)
         IN /\ n \in nodes
            /\ n \in Range(SuccSeq(Tree))
            /\ key[n] = k
            /\ value[n] = store[k]
            /\ find(Tree, k) = n

\* a removal of a node with two children whose successor lies deeper than
\* its right child, the successor carrying a value other than the removed
\* node's
C12_Witness ==
  /\ last.op = "remove"
  /\ trace # <<>>
  /\ trace[1] = "D3deep"
  /\ nodes # {}
  /\ \E n \in nodes : key[n] = last.key + 1 /\ value[n] # last.val

\* Is some RED node of the tree the parent of a RED child?
RedRed ==
  \E n \in nodes :
    /\ color[n] = RBTREE_COLOR_RED
    /\ \/ left[n] # Null /\ color[left[n]] = RBTREE_COLOR_RED
       \/ right[n] # Null /\ color[right[n]] = RBTREE_COLOR_RED

\* C13: validate fails with an assertion on every tree in which some node's
\* left and right subtrees differ in black-height, and the count a node's
\* validation returns is the black-height of its subtree.
C13_ValidateBlackHeight ==
  last.op = "validate" =>
    /\ blackHeight(Tree, root) = -1 => last.out = "assert"
    /\ (last.out = "ok" /\ root # Null) =>
         validateNode(Tree, root).count = blackHeight(Tree, root)

\* validate returns on a tree with a BLACK root whose subtrees differ in
\* black-height and that has no RED node with a RED child
C13_Witness ==
  /\ last.op = "validate"
  /\ last.out = "ok"
  /\ blackHeight(Tree, root) = -1
  /\ ~RedRed

\* C14: validate fails with an assertion on every tree in which a RED node
\* has a RED left child or a RED right child.
C14_ValidateRedRed ==
  (last.op = "validate" /\ RedRed) => last.out = "assert"

\* validate returns on a tree in which a RED node has a BLACK left child and
\* a RED right child
C14_Witness ==
  /\ last.op = "validate"
  /\ last.out = "ok"
  /\ \E n \in nodes :
       /\ color[n] = RBTREE_COLOR_RED
       /\ left[n] # Null /\ color[left[n]] = RBTREE_COLOR_BLACK
       /\ right[n] # Null /\ color[right[n]] = RBTREE_COLOR_RED

\* C15: in every tree reached by inserts and removes, min is the node of the
\* smallest stored key and max the node of the largest stored key, both are
\* null exactly when no key is stored, and empty is true exactly when no key
\* is stored.
C15_Extremes ==
  /\ empty(Tree) <=> StoredKeys = {}
  /\ min(Tree) = Null <=> StoredKeys = {}
  /\ max(Tree) = Null <=> StoredKeys = {}
  /\ StoredKeys # {} =>
       /\ min(Tree) \in nodes
       /\ max(Tree) \in nodes
       /\ key[min(Tree)] = Min(StoredKeys)
       /\ key[max(Tree)] = Max(StoredKeys)
       /\ \A n \in nodes : key[min(Tree)] <= key[n] /\ key[n] <= key[max(Tree)]

\* the smallest key was just removed, and min and max both lie two links or
\* more below the root
C15_Witness ==
  /\ last.op = "remove"
  /\ StoredKeys # {}
  /\ last.key < Min(StoredKeys)
  /\ parent[min(Tree)] # Null /\ parent[parent[min(Tree)]] # Null
  /\ parent[max(Tree)] # Null /\ parent[parent[max(Tree)]] # Null

\* the number of nodes on the longest and on the shortest path from the link
\* n down to a null link
RECURSIVE longestPath(_, _)
longestPath(t, n) ==
  IF n = Null THEN 0
  ELSE LET l == longestPath(t, t.left[n])
           r == longestPath(t, t.right[n])
       IN 1 + IF l >= r THEN l ELSE r

RECURSIVE shortestPath(_, _)
shortestPath(t, n) ==
  IF n = Null THEN 0
  ELSE LET l == shortestPath(t, t.left[n])
           r == shortestPath(t, t.right[n])
       IN 1 + IF l <= r THEN l ELSE r

\* C16: in every tree reached by inserts and removes, the longest path from
\* the root to a null link is at most twice as long as the shortest one.
C16_Balanced == longestPath(Tree, root) <= 2 * shortestPath(Tree, root)

\* a tree whose longest path is exactly twice its shortest, reached by an
\* insert that rotated
C16_Witness ==
  /\ last.op = "insert"
  /\ rot > 0
  /\ shortestPath(Tree, root) = 2
  /\ longestPath(Tree, root) = 4

\* the nodes met from the link n down, each before its subtrees; a descent
\* longer than there are objects has entered a cycle and is cut
RECURSIVE preorder(_, _, _)
preorder(t, n, fuel) ==
  IF n = Null \/ fuel = 0 THEN <<>>
  ELSE <<n>> \o preorder(t, t.left[n], fuel - 1)
             \o preorder(t, t.right[n], fuel - 1)

\* C17: after every insert, remove, swap and reverse the links form a tree:
\* the parent of a node's child is that node, the root has no parent and is
\* the only member without one, no node is its own parent or child, and
\* every member is reached from the root exactly once.
C17_WellFormed ==
  /\ ~fault
  /\ root = Null <=> nodes = {}
  /\ root # Null => root \in nodes /\ parent[root] = Null
  /\ \A n \in nodes :
       /\ parent[n] = Null => n = root
       /\ left[n] # Null => left[n] \in nodes /\ parent[left[n]] = n
       /\ right[n] # Null => right[n] \in nodes /\ parent[right[n]] = n
       /\ n # root =>
            /\ parent[n] \in nodes
            /\ left[parent[n]] = n \/ right[parent[n]] = n
       /\ parent[n] # n /\ left[n] # n /\ right[n] # n
       /\ left[n] # Null => left[n] # right[n]
  /\ LET w == preorder(Tree, root, Cardinality(Nodes) + 1)
     IN /\ Len(w) = Cardinality(nodes)
        /\ Range(w) = nodes

\* a swap of the root with one of its children, both with further children
C17_Witness ==
  /\ last.op = "swap"
  /\ pre.root = last.n1
  /\ pre.parent[last.n2] = last.n1
  /\ root = last.n2
  /\ parent[last.n1] = last.n2
  /\ left[last.n1] # Null \/ right[last.n1] # Null
  /\ left[last.n2] # Null /\ right[last.n2] # Null

\* the shape of the subtree at the link n with the colour at each position
RECURSIVE Shape(_, _)
Shape(t, n) ==
  IF n = Null THEN <<>>
  ELSE <<t.color[n], Shape(t, t.left[n]), Shape(t, t.right[n])>>

\* C18: swap and reverse leave the shape of the tree and the colour at each
\* position as they were, the exchanged nodes taking the colours of their
\* new positions; and after every operation of a run that mixes insert,
\* remove, swap and reverse the root is BLACK, no RED node has a RED child
\* and all paths from a node down hold the same number of BLACK nodes.
C18_ColoursStay ==
  /\ last.op \in {"swap", "reverse"} =>
       Shape(Tree, root) = Shape(pre, pre.root)
  /\ (last.op = "swap" /\ ~fault) =>
       /\ color[last.n1] = pre.color[last.n2]
       /\ color[last.n2] = pre.color[last.n1]
  /\ root # Null => color[root] = RBTREE_COLOR_BLACK
  /\ ~RedRed
  /\ \A n \in nodes : blackHeight(Tree, n) # -1

\* a reverse of two swaps that gave nodes the colour of their new place, in
\* a tree of four nodes that keeps its shape and the colour at each position
C18_Witness ==
  /\ last.op = "reverse"
  /\ last.ret = 2
  /\ Cardinality(nodes) = 4
  /\ \E n \in nodes : color[n] # pre.color[n]
  /\ Shape(Tree, root) = Shape(pre, pre.root)

\* the cases after which a fixup loop is left, in the order they are marked
InsertExits == {<<"I1">>, <<"I2">>, <<"I5">>, <<"I4", "I5">>}
RemoveExits == {<<"R1">>, <<"R3">>, <<"R6">>, <<"R5", "R6">>, <<"R2", "R3">>,
                <<"R2", "R6">>, <<"R2", "R5", "R6">>}

\* the marks a fixup loop left: those of remove follow the mark of the case
\* of remove itself
FixupMarks == IF last.op = "remove" THEN Tail(trace) ELSE trace

\* C19: insert and remove end.  Every iteration of the insertion fixup that
\* goes on (case 3) begins two links nearer to the root than the one before,
\* every iteration of the removal fixup that goes on (case 4) one link
\* nearer; the cases that rotate leave the loop, and so do the cases at the
\* root; the loop makes no more iterations than the links above its first
\* position allow.
C19_FixupsClimb ==
  last.op \in {"insert", "remove"} =>
    LET k == Len(climb)
        marks == FixupMarks
        goesOn == IF last.op = "insert" THEN "I3" ELSE "R4"
        stride == IF last.op = "insert" THEN 2 ELSE 1
        exits == IF last.op = "insert" THEN InsertExits ELSE RemoveExits
    IN /\ ~fault
       /\ k = 0 <=> marks = <<>>
       /\ k > 0 =>
            /\ Len(marks) >= k
            /\ \A i \in 1 .. (k - 1) :
                 /\ marks[i] = goesOn
                 /\ climb[i + 1] = climb[i] - stride
            /\ SubSeq(marks, k, Len(marks)) \in exits
            /\ climb[k] >= 0
            /\ marks[Len(marks)] \in {"I1", "R1"} => climb[k] = 0
            /\ k <= (climb[1] \div stride) + 1

\* an insert four links below the root whose fixup went on once (case 3)
\* and then rotated twice
C19_Witness ==
  /\ last.op = "insert"
  /\ trace = <<"I3", "I4", "I5">>
  /\ climb = <<4, 2>>

\* C20: reverse ends.  Its two pointers meet and never pass each other: on
\* a range of odd length they are the same node at the loop test, on a
\* range of even length at the test made after last is moved; it makes
\* half as many swaps as the range has nodes, rounded down, and none when
\* first and last are the same node.
C20_ReverseEnds ==
  last.op = "reverse" =>
    /\ ~fault
    /\ last.exit \in {"test", "break"}
    /\ last.ret = RangeLen \div 2
    /\ last.exit = "test" <=> RangeLen % 2 = 1
    /\ last.exit = "break" <=> RangeLen % 2 = 0
    /\ last.n1 = last.n2 => last.ret = 0 /\ Tree = pre

\* a reverse of a range of four nodes: two swaps, left at the test made
\* after last is moved
C20_Witness ==
  /\ last.op = "reverse"
  /\ RangeLen = 4
  /\ last.ret = 2
  /\ last.exit = "break"

\* C21: no step of a fixup reads a field of a missing node, on any tree
\* reached by inserts and removes: every rotation has its pivot, the
\* grandparent is there whenever the parent is RED, the sibling whenever it
\* is read, and so is the child of the sibling that a rotation case
\* repaints.  The removal fixup takes the right side for the deficit, also
\* when the deficient position is a null link: the parent's link on that
\* side holds the current node, and the link on the other side a node.
C21_NoMissingNode ==
  /\ ~fault
  /\ \A i \in 1 .. Len(deficit) :
       /\ deficit[i].link = deficit[i].node
       /\ deficit[i].sibling # Null
       /\ deficit[i].sibling # deficit[i].node
       /\ i = 1 => deficit[i].node = Null
       /\ i > 1 => deficit[i].node # Null

\* a remove whose fixup began at a null right link and went through the
\* cases that repaint the near and the far child of the sibling
C21_Witness ==
  /\ last.op = "remove"
  /\ Len(deficit) = 1
  /\ deficit[1].side = "b"
  /\ deficit[1].node = Null
  /\ Len(trace) >= 3
  /\ SubSeq(trace, Len(trace) - 2, Len(trace)) = <<"R2", "R5", "R6">>

\* C22: in a tree whose order of keys swaps or reverses have changed,
\* remove(node) removes that node by its position: the walk by succ from
\* min is the walk before the call without node, the other nodes in the
\* order they had and each with the key and the value it had.
C22_RemoveByPosition ==
  last.op = "remove" =>
    LET w == SuccSeq(Tree)
        w0 == SuccSeq(pre)
    IN /\ ~fault
       /\ w = Without(w0, last.n1)
       /\ w = order
       /\ PredSeq(Tree) = Backwards(w)
       /\ Len(w) = Cardinality(nodes)
       /\ nodes = pre.nodes \ {last.n1}
       /\ \A n \in nodes : key[n] = pre.key[n] /\ value[n] = pre.value[n]

\* a remove of a node with two children from a tree of four nodes whose
\* walk did not list the keys in order, and does not after the remove
C22_Witness ==
  /\ last.op = "remove"
  /\ trace # <<>>
  /\ trace[1] \in {"D3", "D3deep"}
  /\ Cardinality(pre.nodes) = 4
  /\ KeysOf(pre, SuccSeq(pre)) # Sorted(pre.nodes)
  /\ KeysOf(Tree, SuccSeq(Tree)) # Sorted(nodes)

\* Do two heaps hold the same tree: the same root and, for every node, the
\* same parent, children, colour, key and value?
SameTree(t, u) ==
  /\ t.root = u.root
  /\ t.parent = u.parent
  /\ t.left = u.left
  /\ t.right = u.right
  /\ t.color = u.color
  /\ t.key = u.key
  /\ t.value = u.value
  /\ t.nodes = u.nodes
  /\ t.fault = u.fault

\* C23: swap undoes itself.  After swap(a, b), a second swap(a, b), or a
\* swap(b, a), gives back the root and every node's parent, children and
\* colour as they were before the first; swap(a, a) changes nothing.
C23_SwapTwice ==
  /\ last.op = "swap" =>
       /\ SameTree(swap(Tree, last.n1, last.n2), pre)
       /\ SameTree(swap(Tree, last.n2, last.n1), pre)
       /\ last.n1 = last.n2 => SameTree(Tree, pre)
  /\ \A a \in nodes : SameTree(swap(Tree, a, a), Tree)
  /\ \A a \in nodes, b \in nodes :
       /\ SameTree(swap(swap(Tree, a, b), a, b), Tree)
       /\ SameTree(swap(swap(Tree, a, b), b, a), Tree)

\* a swap of the root with its child, both with children of their own, that
\* changed the tree and that the same swap again undoes
C23_Witness ==
  /\ last.op = "swap"
  /\ pre.root = last.n2
  /\ pre.parent[last.n1] = last.n2
  /\ root = last.n1
  /\ left[last.n2] # Null \/ right[last.n2] # Null
  /\ ~SameTree(Tree, pre)
  /\ SameTree(swap(Tree, last.n1, last.n2), pre)

\* how many marks of the fixup trace are among the cases cs
Count(cs) == Cardinality({i \in 1 .. Len(trace) : trace[i] \in cs})

\* C24: an insert makes at most 2 rotations and a remove at most 3,
\* whatever the size of the tree: each case that rotates is met at most
\* once in a call and makes one rotation, the converting rotation (case 4
\* of insert, case 5 of remove) and the rotation for a RED sibling (case 2
\* of remove) are followed by the last rotation or by the end of the loop.
C24_FewRotations ==
  /\ last.op = "insert" =>
       /\ rot <= 2
       /\ rot = Count({"I4", "I5"})
       /\ Count({"I4"}) <= 1 /\ Count({"I5"}) <= 1
       /\ InTrace("I4") => trace[Len(trace)] = "I5"
       /\ InTrace("I5") => trace[Len(trace)] = "I5"
  /\ last.op = "remove" =>
       /\ rot <= 3
       /\ rot = Count({"R2", "R5", "R6"})
       /\ Count({"R2"}) <= 1 /\ Count({"R5"}) <= 1 /\ Count({"R6"}) <= 1
       /\ InTrace("R5") => trace[Len(trace)] = "R6"
       /\ InTrace("R6") => trace[Len(trace)] = "R6"
       /\ InTrace("R2") => trace[Len(trace)] \in {"R3", "R6"}

\* a remove that made three rotations: for a RED sibling, the converting
\* one and the last one
C24_Witness ==
  /\ last.op = "remove"
  /\ rot = 3
  /\ Count({"R2"}) = 1 /\ Count({"R5"}) = 1 /\ Count({"R6"}) = 1
  /\ Cardinality(nodes) >= 6

====
